---- MODULE Spec2Model ----
(***************************************************************************)
(* Order-submission decoding of the uniswapx-service:                      *)
(* PostOrderBodyParser.fromPostRequest and the decoders it dispatches to.  *)
(*                                                                         *)
(* The uniswapx-sdk is outside the repository.  Each of its calls is       *)
(* modelled by its outcome on the encoded order: an encoded order is the   *)
(* ABI layout of its bytes, the reactor address and the amounts written    *)
(* in it, so that equal bytes always decode alike.                         *)
(***************************************************************************)
EXTENDS Integers, Sequences, FiniteSets, TLC

\* Largest token amount written in an encoded order.
MaxAmount == 1

Amounts == 0..MaxAmount

Undefined == "undefined"

\* OrderType of the sdk; Undefined is an absent orderType.
OrderTypes == {"Dutch", "Limit", "Dutch_V2", "Relay"}

----------------------------------------------------------------------------
(* Strings that the code lower-cases are sequences of characters.          *)

LowerOf == [c \in {"A", "B", "C", "D", "E"} |->
              CASE c = "A" -> "a" [] c = "B" -> "b" [] c = "C" -> "c"
                [] c = "D" -> "d" [] c = "E" -> "e"]

ToLowerChar(c) == IF c \in DOMAIN LowerOf THEN LowerOf[c] ELSE c

\* String.prototype.toLowerCase
ToLowerCase(s) == [i \in DOMAIN s |-> ToLowerChar(s[i])]

\* Reactor addresses an encoded order may name.
ReactorAddresses ==
  { <<"a", "1">>, <<"A", "1">>, <<"b", "2">>, <<"c", "3">>,
    <<"d", "4">>, <<"D", "4">>, <<"e", "5">> }

\* The sdk's table of the reactors it knows, keyed by lower-cased address.
REVERSE_REACTOR_MAPPING ==
  [r \in { <<"a", "1">>, <<"b", "2">>, <<"c", "3">> } |->
     CASE r = <<"a", "1">> -> "Dutch"
       [] r = <<"b", "2">> -> "Dutch_V2"
       [] r = <<"c", "3">> -> "Relay"]

\* ABI layouts of an encoded order; "junk" decodes under no schema.
Layouts == {"Dutch", "Dutch_V2", "Relay", "junk"}

EncodedOrders ==
  [layout : Layouts, reactor : ReactorAddresses,
   startAmount : Amounts, endAmount : Amounts]

\* process.env.CUSTOM_REACTOR_ADDRESS: unset, or a string (possibly empty).
EnvValues ==
  {[defined |-> FALSE, value |-> <<>>], [defined |-> TRUE, value |-> <<>>]}
    \cup {[defined |-> TRUE, value |-> a] :
            a \in { <<"d", "4">>, <<"D", "4">>, <<"e", "5">>, <<"a", "1">> }}

----------------------------------------------------------------------------
(* Errors.  origin is the throw site: two error objects created at         *)
(* different sites are different objects.                                  *)

Err(name, message, origin) ==
  [name |-> name, message |-> message, origin |-> origin]

UnexpectedOrderTypeError(orderType, origin) ==
  Err("UnexpectedOrderTypeError", orderType, origin)

SdkOk(order) == [ok |-> TRUE, val |-> order]
SdkThrow(e) == [ok |-> FALSE, val |-> e]

SdkOrder(cls, encodedOrder, chainId) ==
  [cls |-> cls, reactor |-> encodedOrder.reactor,
   startAmount |-> encodedOrder.startAmount,
   endAmount |-> encodedOrder.endAmount, chainId |-> chainId]

\* OrderParser._parseOrder: the order class is looked up from the reactor
\* address, then the bytes are decoded under that class's schema.
SdkParseByReactor(encodedOrder, chainId, origin) ==
  LET key == ToLowerCase(encodedOrder.reactor) IN
  IF encodedOrder.layout = "junk"
  THEN SdkThrow(Err("Error", "malformed order", origin))
  ELSE IF key \notin DOMAIN REVERSE_REACTOR_MAPPING
  THEN SdkThrow(Err("MissingConfiguration", "reactor", origin))
  ELSE IF encodedOrder.layout # REVERSE_REACTOR_MAPPING[key]
  THEN SdkThrow(Err("Error", "malformed order", origin))
  ELSE SdkOk(SdkOrder(REVERSE_REACTOR_MAPPING[key], encodedOrder, chainId))

\* this.uniswapXParser.parseOrder(encodedOrder, chainId)
uniswapXParser_parseOrder(encodedOrder, chainId) ==
  SdkParseByReactor(encodedOrder, chainId, "uniswapXParser.parseOrder")

\* this.uniswapXParser.getOrderType(order): a Dutch order without decay is
\* a Limit order.
uniswapXParser_getOrderType(order) ==
  IF order.cls = "Dutch"
  THEN IF order.startAmount = order.endAmount THEN "Limit" ELSE "Dutch"
  ELSE order.cls

\* this.relayParser.parseOrder(encodedOrder, chainId)
relayParser_parseOrder(encodedOrder, chainId) ==
  SdkParseByReactor(encodedOrder, chainId, "relayParser.parseOrder")

\* this.relayParser.getOrderType(order)
relayParser_getOrderType(order) == order.cls

\* SDKDutchOrder.parse(encodedOrder, chainId): the base schema, whatever
\* the reactor.
SDKDutchOrder_parse(encodedOrder, chainId) ==
  IF encodedOrder.layout = "Dutch"
  THEN SdkOk(SdkOrder("Dutch", encodedOrder, chainId))
  ELSE SdkThrow(Err("Error", "malformed order", "SDKDutchOrder.parse"))

\* CosignedV2DutchOrder.parse(encodedOrder, chainId)
CosignedV2DutchOrder_parse(encodedOrder, chainId) ==
  IF encodedOrder.layout = "Dutch_V2"
  THEN SdkOk(SdkOrder("Dutch_V2", encodedOrder, chainId))
  ELSE SdkThrow(Err("Error", "malformed order", "CosignedV2DutchOrder.parse"))

----------------------------------------------------------------------------
(* The order models: each class fixes its orderType.                       *)

NewOrder(orderType, inner, signature, chainId, quoteId, requestId) ==
  [orderType |-> orderType, inner |-> inner, signature |-> signature,
   chainId |-> chainId, quoteId |-> quoteId, requestId |-> requestId]

LimitOrder(inner, signature, chainId, quoteId) ==
  NewOrder("Limit", inner, signature, chainId, quoteId, Undefined)

DutchV1Order(inner, signature, chainId, quoteId) ==
  NewOrder("Dutch", inner, signature, chainId, quoteId, Undefined)

DutchV2Order(inner, signature, chainId, quoteId, requestId) ==
  NewOrder("Dutch_V2", inner, signature, chainId, quoteId, requestId)

RelayOrder(inner, signature, chainId) ==
  NewOrder("Relay", inner, signature, chainId, Undefined, Undefined)

----------------------------------------------------------------------------
(* Outcome of a parser method: the order returned or the error thrown,     *)
(* the log entries written and the sdk decoders invoked, in order.         *)

Return(order, log, calls) ==
  [ok |-> TRUE, val |-> order, log |-> log, calls |-> calls]

Throw(e, log, calls) ==
  [ok |-> FALSE, val |-> e, log |-> log, calls |-> calls]

NoErr == Err("none", "none", "none")

\* this.logger.<level>(message, {err, encodedOrder, chainId, signature})
LogCtx(level, message, e, encodedOrder, chainId, signature) ==
  [level |-> level, message |-> message, err |-> e, context |-> TRUE,
   encodedOrder |-> encodedOrder, chainId |-> chainId,
   signature |-> signature]

NoEncodedOrder ==
  [layout |-> "none", reactor |-> <<>>, startAmount |-> 0, endAmount |-> 0]

\* this.logger.<level>(message) and the warning about the reactor, which
\* carry no submission context.
LogPlain(level, message) ==
  [level |-> level, message |-> message, err |-> NoErr, context |-> FALSE,
   encodedOrder |-> NoEncodedOrder, chainId |-> 0, signature |-> "none"]

----------------------------------------------------------------------------
(* PostOrderBodyParser                                                     *)

\* GenericDecode wrapping whatever type the sdk infers instead of throwing.
GenericDecode_AnyType(encodedOrder, signature, chainId, quoteId) ==
  LET parsed == uniswapXParser_parseOrder(encodedOrder, chainId)
      calls == <<"uniswapXParser.parseOrder">>
  IN IF ~parsed.ok THEN Throw(parsed.val, <<>>, calls)
     ELSE Return(NewOrder(uniswapXParser_getOrderType(parsed.val), parsed.val,
                          signature, chainId, quoteId, Undefined),
                 <<>>, calls)

\* The try block of tryParseDutchOrder: the generic decoder.  Its throw of
\* UnexpectedOrderTypeError is inside the try, so the catch sees it too.
GenericDecode(encodedOrder, signature, chainId, quoteId) ==
  LET parsed == uniswapXParser_parseOrder(encodedOrder, chainId)
      calls == <<"uniswapXParser.parseOrder">>
  IN IF ~parsed.ok THEN Throw(parsed.val, <<>>, calls)
     ELSE LET orderType == uniswapXParser_getOrderType(parsed.val) IN
          IF orderType = "Limit"
          THEN Return(LimitOrder(parsed.val, signature, chainId, quoteId),
                      <<>>, calls)
          ELSE IF orderType = "Dutch"
          THEN Return(DutchV1Order(parsed.val, signature, chainId, quoteId),
                      <<>>, calls)
          ELSE Throw(UnexpectedOrderTypeError(orderType, "tryParseDutchOrder"),
                     <<>>, calls)

\* FallbackDecode comparing the addresses as written, without lower-casing.
FallbackDecode_CaseSensitive(err, encodedOrder, signature, chainId, quoteId, env) ==
  LET warn == LogCtx("warn",
                "Unable to parse legacy Dutch order - trying to parse with custom reactor",
                err, encodedOrder, chainId, signature)
      parsed == SDKDutchOrder_parse(encodedOrder, chainId)
      calls == <<"SDKDutchOrder.parse">>
  IN IF ~parsed.ok THEN Throw(parsed.val, <<warn>>, calls)
     ELSE IF ~env.defined \/ env.value = <<>>
     THEN Throw(Err("Error", "CUSTOM_REACTOR_ADDRESS is not set", "fallback"),
                <<warn, LogPlain("warn", "CUSTOM_REACTOR_ADDRESS is not set")>>,
                calls)
     ELSE IF parsed.val.reactor # env.value
     THEN Throw(Err("Error", "Invalid reactor address", "fallback"),
                <<warn, LogPlain("warn", "Invalid reactor address")>>, calls)
     ELSE Return(DutchV1Order(parsed.val, signature, chainId, quoteId),
                 <<warn>>, calls)

\* FallbackDecode without the check that the address is set.
FallbackDecode_NoPresenceCheck(err, encodedOrder, signature, chainId, quoteId, env) ==
  LET warn == LogCtx("warn",
                "Unable to parse legacy Dutch order - trying to parse with custom reactor",
                err, encodedOrder, chainId, signature)
      parsed == SDKDutchOrder_parse(encodedOrder, chainId)
      calls == <<"SDKDutchOrder.parse">>
  IN IF ~parsed.ok THEN Throw(parsed.val, <<warn>>, calls)
     ELSE IF ToLowerCase(parsed.val.reactor) # ToLowerCase(env.value)
     THEN Throw(Err("Error", "Invalid reactor address", "fallback"),
                <<warn, LogPlain("warn", "Invalid reactor address")>>, calls)
     ELSE Return(DutchV1Order(parsed.val, signature, chainId, quoteId),
                 <<warn>>, calls)

\* FallbackDecode checking that the address is set before it re-decodes.
FallbackDecode_CheckFirst(err, encodedOrder, signature, chainId, quoteId, env) ==
  LET warn == LogCtx("warn",
                "Unable to parse legacy Dutch order - trying to parse with custom reactor",
                err, encodedOrder, chainId, signature)
      parsed == SDKDutchOrder_parse(encodedOrder, chainId)
      calls == <<"SDKDutchOrder.parse">>
  IN IF ~env.defined \/ env.value = <<>>
     THEN Throw(Err("Error", "CUSTOM_REACTOR_ADDRESS is not set", "fallback"),
                <<warn, LogPlain("warn", "CUSTOM_REACTOR_ADDRESS is not set")>>,
                calls)
     ELSE IF ~parsed.ok THEN Throw(parsed.val, <<warn>>, calls)
     ELSE IF ToLowerCase(parsed.val.reactor) # ToLowerCase(env.value)
     THEN Throw(Err("Error", "Invalid reactor address", "fallback"),
                <<warn, LogPlain("warn", "Invalid reactor address")>>, calls)
     ELSE Return(DutchV1Order(parsed.val, signature, chainId, quoteId),
                 <<warn>>, calls)

\* FallbackDecode building a LimitOrder for an order without decay.
FallbackDecode_ShapeAware(err, encodedOrder, signature, chainId, quoteId, env) ==
  LET warn == LogCtx("warn",
                "Unable to parse legacy Dutch order - trying to parse with custom reactor",
                err, encodedOrder, chainId, signature)
      parsed == SDKDutchOrder_parse(encodedOrder, chainId)
      calls == <<"SDKDutchOrder.parse">>
  IN IF ~parsed.ok THEN Throw(parsed.val, <<warn>>, calls)
     ELSE IF ~env.defined \/ env.value = <<>>
     THEN Throw(Err("Error", "CUSTOM_REACTOR_ADDRESS is not set", "fallback"),
                <<warn, LogPlain("warn", "CUSTOM_REACTOR_ADDRESS is not set")>>,
                calls)
     ELSE IF ToLowerCase(parsed.val.reactor) # ToLowerCase(env.value)
     THEN Throw(Err("Error", "Invalid reactor address", "fallback"),
                <<warn, LogPlain("warn", "Invalid reactor address")>>, calls)
     ELSE IF parsed.val.startAmount = parsed.val.endAmount
     THEN Return(LimitOrder(parsed.val, signature, chainId, quoteId),
                 <<warn>>, calls)
     ELSE Return(DutchV1Order(parsed.val, signature, chainId, quoteId),
                 <<warn>>, calls)

\* The inner try block of tryParseDutchOrder: the custom-reactor fallback,
\* entered with the generic decoder's error err.
FallbackDecode(err, encodedOrder, signature, chainId, quoteId, env) ==
  LET warn == LogCtx("warn",
                "Unable to parse legacy Dutch order - trying to parse with custom reactor",
                err, encodedOrder, chainId, signature)
      parsed == SDKDutchOrder_parse(encodedOrder, chainId)
      calls == <<"SDKDutchOrder.parse">>
  IN IF ~parsed.ok THEN Throw(parsed.val, <<warn>>, calls)
     ELSE IF ~env.defined \/ env.value = <<>>
     THEN Throw(Err("Error", "CUSTOM_REACTOR_ADDRESS is not set", "fallback"),
                <<warn, LogPlain("warn", "CUSTOM_REACTOR_ADDRESS is not set")>>,
                calls)
     ELSE IF ToLowerCase(parsed.val.reactor) # ToLowerCase(env.value)
     THEN Throw(Err("Error", "Invalid reactor address", "fallback"),
                <<warn, LogPlain("warn", "Invalid reactor address")>>, calls)
     ELSE Return(DutchV1Order(parsed.val, signature, chainId, quoteId),
                 <<warn>>, calls)

\* The inner catch: log the error of the inner try and rethrow it.
FallbackCatch(inner, encodedOrder, signature, chainId) ==
  IF inner.ok THEN inner
  ELSE Throw(inner.val,
             Append(inner.log,
                    LogCtx("error", "Unable to parse legacy Dutch order",
                           inner.val, encodedOrder, chainId, signature)),
             inner.calls)

\* tryParseDutchOrder rethrowing the generic decoder's error when the
\* fallback fails.
tryParseDutchOrder_RethrowGeneric(encodedOrder, signature, chainId, quoteId, env) ==
  LET generic == GenericDecode(encodedOrder, signature, chainId, quoteId) IN
  IF generic.ok THEN generic
  ELSE LET inner == FallbackCatch(
                      FallbackDecode(generic.val, encodedOrder, signature,
                                     chainId, quoteId, env),
                      encodedOrder, signature, chainId)
       IN [inner EXCEPT !.val = IF inner.ok THEN inner.val ELSE generic.val,
                        !.log = generic.log \o inner.log,
                        !.calls = generic.calls \o inner.calls]

\* tryParseDutchOrder checking that the address is set before it decodes.
tryParseDutchOrder_EagerCheck(encodedOrder, signature, chainId, quoteId, env) ==
  LET generic == GenericDecode(encodedOrder, signature, chainId, quoteId)
      inner == FallbackCatch(
                 FallbackDecode(generic.val, encodedOrder, signature,
                                chainId, quoteId, env),
                 encodedOrder, signature, chainId)
  IN IF ~env.defined \/ env.value = <<>>
     THEN Throw(Err("Error", "CUSTOM_REACTOR_ADDRESS is not set", "fallback"),
                <<LogPlain("warn", "CUSTOM_REACTOR_ADDRESS is not set")>>,
                <<>>)
     ELSE IF generic.ok THEN generic
     ELSE [inner EXCEPT !.log = generic.log \o inner.log,
                        !.calls = generic.calls \o inner.calls]

tryParseDutchOrder(encodedOrder, signature, chainId, quoteId, env) ==
  LET generic == GenericDecode(encodedOrder, signature, chainId, quoteId) IN
  IF generic.ok THEN generic
  ELSE LET inner == FallbackCatch(
                      FallbackDecode(generic.val, encodedOrder, signature,
                                     chainId, quoteId, env),
                      encodedOrder, signature, chainId)
       IN [inner EXCEPT !.log = generic.log \o inner.log,
                        !.calls = generic.calls \o inner.calls]

\* LogAndRethrow throwing a new error in place of the one it caught.
LogAndRethrow_Wraps(r, message, encodedOrder, signature, chainId) ==
  IF r.ok THEN r
  ELSE Throw(Err("Error", message, "wrapper"),
             Append(r.log, LogCtx("error", message, r.val, encodedOrder,
                                  chainId, signature)),
             r.calls)

\* The try/catch shared by the typed wrappers: log the error and rethrow.
LogAndRethrow(r, message, encodedOrder, signature, chainId) ==
  IF r.ok THEN r
  ELSE Throw(r.val,
             Append(r.log, LogCtx("error", message, r.val, encodedOrder,
                                  chainId, signature)),
             r.calls)

\* Return the order when its orderType is the expected one, otherwise throw
\* UnexpectedOrderTypeError(found) from the wrapper origin.
RequireOrderType(r, expected, origin) ==
  IF ~r.ok THEN r
  ELSE IF r.val.orderType = expected THEN r
  ELSE Throw(UnexpectedOrderTypeError(r.val.orderType, origin), r.log, r.calls)

\* tryParseDutchV1Order returning whatever tryParseDutchOrder returns.
tryParseDutchV1Order_NoTypeCheck(encodedOrder, signature, chainId, quoteId, env) ==
  LogAndRethrow(
    tryParseDutchOrder(encodedOrder, signature, chainId, quoteId, env),
    "Unable to parse DutchV1 order", encodedOrder, signature, chainId)

tryParseDutchV1Order(encodedOrder, signature, chainId, quoteId, env) ==
  LogAndRethrow(
    RequireOrderType(
      tryParseDutchOrder(encodedOrder, signature, chainId, quoteId, env),
      "Dutch", "tryParseDutchV1Order"),
    "Unable to parse DutchV1 order", encodedOrder, signature, chainId)

\* tryParseLimitOrder returning whatever tryParseDutchOrder returns.
tryParseLimitOrder_NoTypeCheck(encodedOrder, signature, chainId, quoteId, env) ==
  LogAndRethrow(
    tryParseDutchOrder(encodedOrder, signature, chainId, quoteId, env),
    "Unable to parse Limit order", encodedOrder, signature, chainId)

tryParseLimitOrder(encodedOrder, signature, chainId, quoteId, env) ==
  LogAndRethrow(
    RequireOrderType(
      tryParseDutchOrder(encodedOrder, signature, chainId, quoteId, env),
      "Limit", "tryParseLimitOrder"),
    "Unable to parse Limit order", encodedOrder, signature, chainId)

\* tryParseDutchV2Order decoding a second time when the first decode fails.
tryParseDutchV2Order_Retries(encodedOrder, signature, chainId, quoteId, requestId) ==
  LET parsed == CosignedV2DutchOrder_parse(encodedOrder, chainId)
      once == <<"CosignedV2DutchOrder.parse">>
  IN LogAndRethrow(
       IF parsed.ok
       THEN Return(DutchV2Order(parsed.val, signature, chainId, quoteId,
                                requestId), <<>>, once)
       ELSE Throw(parsed.val, <<>>, once \o once),
       "Unable to parse DutchV2 order", encodedOrder, signature, chainId)

\* tryParseDutchV2Order not handing the requestId to the order.
tryParseDutchV2Order_DropsRequestId(encodedOrder, signature, chainId, quoteId, requestId) ==
  LET parsed == CosignedV2DutchOrder_parse(encodedOrder, chainId)
      calls == <<"CosignedV2DutchOrder.parse">>
  IN LogAndRethrow(
       IF parsed.ok
       THEN Return(DutchV2Order(parsed.val, signature, chainId, quoteId,
                                Undefined), <<>>, calls)
       ELSE Throw(parsed.val, <<>>, calls),
       "Unable to parse DutchV2 order", encodedOrder, signature, chainId)

tryParseDutchV2Order(encodedOrder, signature, chainId, quoteId, requestId) ==
  LET parsed == CosignedV2DutchOrder_parse(encodedOrder, chainId)
      calls == <<"CosignedV2DutchOrder.parse">>
  IN LogAndRethrow(
       IF parsed.ok
       THEN Return(DutchV2Order(parsed.val, signature, chainId, quoteId,
                                requestId), <<>>, calls)
       ELSE Throw(parsed.val, <<>>, calls),
       "Unable to parse DutchV2 order", encodedOrder, signature, chainId)

\* tryParseRelayOrder without the re-derived type check.
tryParseRelayOrder_NoTypeCheck(encodedOrder, signature, chainId) ==
  LET parsed == relayParser_parseOrder(encodedOrder, chainId)
      calls == <<"relayParser.parseOrder">>
  IN LogAndRethrow(
       IF ~parsed.ok THEN Throw(parsed.val, <<>>, calls)
       ELSE Return(RelayOrder(parsed.val, signature, chainId), <<>>, calls),
       "Unable to parse Relay order", encodedOrder, signature, chainId)

tryParseRelayOrder(encodedOrder, signature, chainId) ==
  LET parsed == relayParser_parseOrder(encodedOrder, chainId)
      calls == <<"relayParser.parseOrder">>
  IN LogAndRethrow(
       IF ~parsed.ok THEN Throw(parsed.val, <<>>, calls)
       ELSE LET orderType == relayParser_getOrderType(parsed.val) IN
            IF orderType = "Relay"
            THEN Return(RelayOrder(parsed.val, signature, chainId), <<>>, calls)
            ELSE Throw(UnexpectedOrderTypeError(orderType, "tryParseRelayOrder"),
                       <<>>, calls),
       "Unable to parse Relay order", encodedOrder, signature, chainId)

\* fromPostRequest whose Dutch_V2 case lacks its return and falls through
\* to the legacy case when the V2 decoder fails.
fromPostRequest_V2FallsThrough(body, env) ==
  LET v2 == tryParseDutchV2Order(body.encodedOrder, body.signature,
                                 body.chainId, body.quoteId, body.requestId)
      legacy == tryParseDutchOrder(body.encodedOrder, body.signature,
                                   body.chainId, body.quoteId, env)
  IN CASE body.orderType = "Dutch" ->
            tryParseDutchV1Order(body.encodedOrder, body.signature,
                                 body.chainId, body.quoteId, env)
       [] body.orderType = "Limit" ->
            tryParseLimitOrder(body.encodedOrder, body.signature, body.chainId,
                               body.quoteId, env)
       [] body.orderType = "Dutch_V2" ->
            IF v2.ok THEN v2
            ELSE [legacy EXCEPT !.log = v2.log \o legacy.log,
                                !.calls = v2.calls \o legacy.calls]
       [] body.orderType = "Relay" ->
            tryParseRelayOrder(body.encodedOrder, body.signature, body.chainId)
       [] body.orderType = Undefined -> legacy

\* fromPostRequest(body), with env the value of
\* process.env.CUSTOM_REACTOR_ADDRESS at the time of the call.
fromPostRequest(body, env) ==
  CASE body.orderType = "Dutch" ->
         tryParseDutchV1Order(body.encodedOrder, body.signature, body.chainId,
                              body.quoteId, env)
    [] body.orderType = "Limit" ->
         tryParseLimitOrder(body.encodedOrder, body.signature, body.chainId,
                            body.quoteId, env)
    [] body.orderType = "Dutch_V2" ->
         tryParseDutchV2Order(body.encodedOrder, body.signature, body.chainId,
                              body.quoteId, body.requestId)
    [] body.orderType = "Relay" ->
         tryParseRelayOrder(body.encodedOrder, body.signature, body.chainId)
    [] body.orderType = Undefined ->
         tryParseDutchOrder(body.encodedOrder, body.signature, body.chainId,
                            body.quoteId, env)

----------------------------------------------------------------------------
(* The service process: calls of fromPostRequest, each in a slot.  A call  *)
(* is synchronous, so it is one step.                                      *)

VARIABLES processEnv, pc, body, result, sfn, goh

\* The parser's calls, and the two handlers' invocations.
parserVars == <<processEnv, pc, body, result>>
handlerVars == <<sfn, goh>>

vars == <<processEnv, pc, body, result, sfn, goh>>

Signatures == {"sigA", "sigB"}
ChainIds == {1, 137}
QuoteIds == {Undefined, "q1"}
RequestIds == {Undefined, "r1"}

\* PostOrderRequestBody
Bodies ==
  [encodedOrder : EncodedOrders, signature : Signatures, chainId : ChainIds,
   orderType : OrderTypes \cup {Undefined}, quoteId : QuoteIds,
   requestId : RequestIds]

\* The submissions of the two-call specification: every orderType and both
\* signatures over fewer encoded orders.
PairBodies ==
  {b \in Bodies :
     /\ b.encodedOrder.reactor \in { <<"a", "1">>, <<"D", "4">> }
     /\ b.encodedOrder.startAmount = MaxAmount
     /\ b.encodedOrder.endAmount \in {0, MaxAmount}
     /\ b.chainId = 1
     /\ b.quoteId = Undefined
     /\ b.requestId = Undefined}

NoBody ==
  [encodedOrder |-> NoEncodedOrder, signature |-> "none", chainId |-> 0,
   orderType |-> "none", quoteId |-> Undefined, requestId |-> Undefined]

NoResult == Throw(NoErr, <<>>, <<>>)

----------------------------------------------------------------------------
(* SfnLambdaHandler: the handler of a step-function state.                 *)

\* Keys of a step-function input, in the order a schema lists them.
SfnKeyOrder == <<"orderHash", "chainId">>

SfnKeys == {SfnKeyOrder[i] : i \in DOMAIN SfnKeyOrder}

\* SfnStateInputOutput: a record of some of the keys.
SfnEvents == UNION {[K -> {1}] : K \in SUBSET SfnKeys}

\* inputSchema(): null, or a Joi object schema, here the keys it requires.
SfnSchemas ==
  {[null |-> TRUE, required |-> {}]}
    \cup {[null |-> FALSE, required |-> K] : K \in SUBSET SfnKeys}

NoSchema == [null |-> TRUE, required |-> {}]

\* schema.validate(input, {allowUnknown: true}).error: the message of the
\* first required key that input lacks, or "none".
SchemaValidationError(schema, input) ==
  LET missing == {i \in DOMAIN SfnKeyOrder :
                    SfnKeyOrder[i] \in schema.required \ DOMAIN input}
  IN IF missing = {} THEN "none"
     ELSE SfnKeyOrder[CHOOSE i \in missing : \A j \in missing : i <= j]

\* new SfnInputValidationError(inputValidation.error.message)
SfnInputValidationError(message) ==
  Err("SfnInputValidationError", message, "validateInput")

\* new InjectionError(`Unexpected error building request injected:\n${err}`)
InjectionError(err) ==
  Err("InjectionError",
      <<"Unexpected error building request injected:", err.name, err.message>>,
      "buildHandler")

\* validateInput that logs the validation error and does not throw it.
validateInput_LogsOnly(schema, input) ==
  LET error == IF schema.null THEN "none"
               ELSE SchemaValidationError(schema, input)
  IN IF error # "none"
     THEN [ok |-> TRUE, val |-> NoErr,
           log |-> <<LogPlain("info", "Input failed validation")>>]
     ELSE [ok |-> TRUE, val |-> NoErr, log |-> <<>>]

\* validateInput(input, log): returns the input, or throws
\* SfnInputValidationError with the validation's message.
validateInput(schema, input) ==
  LET error == IF schema.null THEN "none"
               ELSE SchemaValidationError(schema, input)
  IN IF error # "none"
     THEN [ok |-> FALSE,
           val |-> SfnInputValidationError(error),
           log |-> <<LogPlain("info", "Input failed validation")>>]
     ELSE [ok |-> TRUE, val |-> NoErr, log |-> <<>>]

\* What awaiting this.injectorPromise and calling getContainerInjected()
\* may do.
InjectorOutcomes == {"resolved", "rejected", "containerThrows"}

\* What injector.getRequestInjected may throw, and handleRequest.
InjectedErrors ==
  {Err("Error", m, "getRequestInjected") : m \in {"db unavailable", "bad event"}}

HandleErrors == {Err("Error", "handler failed", "handleRequest")}

\* What handleRequest may return.
SfnOutputs == {"retry", "done"}

\* The handler between invocations, built with schema.
SfnStart(schema) ==
  [schema |-> schema, pc |-> "idle", event |-> << >>, trace |-> <<>>,
   log |-> <<>>, injected |-> "none", cause |-> NoErr,
   outcome |-> "pending", output |-> "none", error |-> NoErr]

----------------------------------------------------------------------------
(* GetOrdersHandler                                                        *)

\* The longest list of orders the database returns, and the largest limit.
MaxOrders == 3

\* OrderEntity | undefined
OrderEntities == {"order1", "order2", Undefined}

OrdersUpTo(n) == UNION {[1..k -> OrderEntities] : k \in 0..n}

\* requestInjected: {limit, queryFilters}
GetOrdersLimits == 1..MaxOrders

GetOrdersFilters == {"none", "offerer"}

\* How dbInterface.getOrders settles: it resolves with orders, or rejects
\* with an Error, or with a value that is not an Error.
DbOutcomes ==
  {[resolved |-> TRUE, orders |-> os, thrown |-> NoErr, isError |-> FALSE] :
     os \in OrdersUpTo(MaxOrders)}
    \cup {[resolved |-> FALSE, orders |-> <<>>,
           thrown |-> Err("Error", m, "getOrders"), isError |-> TRUE] :
            m \in {"db timeout", "throttled"}}
    \cup {[resolved |-> FALSE, orders |-> <<>>,
           thrown |-> Err("none", "rejected with a string", "getOrders"),
           isError |-> FALSE]}

NoResponse ==
  [raised |-> FALSE, thrown |-> NoErr, statusCode |-> 0, hasBody |-> FALSE,
   orders |-> <<>>, hasErrorCode |-> FALSE, errorCode |-> "none"]

\* A handleRequest whose catch handles only Errors and rethrows the rest.
GetOrdersRespond_RethrowsNonError(db) ==
  IF db.resolved
  THEN [NoResponse EXCEPT !.statusCode = 200, !.hasBody = TRUE,
                          !.orders = db.orders]
  ELSE IF db.isError
       THEN [NoResponse EXCEPT !.statusCode = 500, !.hasErrorCode = TRUE,
                               !.errorCode = db.thrown.message]
       ELSE [NoResponse EXCEPT !.raised = TRUE, !.thrown = db.thrown]

\* try { orders = await getOrders(...); return {statusCode: 200, body} }
\* catch (e) { return {statusCode: 500, ...(e instanceof Error &&
\* {errorCode: e.message})} }
GetOrdersRespond(db) ==
  IF db.resolved
  THEN [NoResponse EXCEPT !.statusCode = 200, !.hasBody = TRUE,
                          !.orders = db.orders]
  ELSE IF db.isError
       THEN [NoResponse EXCEPT !.statusCode = 500, !.hasErrorCode = TRUE,
                               !.errorCode = db.thrown.message]
       ELSE [NoResponse EXCEPT !.statusCode = 500]

NoDbOutcome ==
  [resolved |-> FALSE, orders |-> <<>>, thrown |-> NoErr, isError |-> FALSE]

\* The handler between calls of handleRequest.
GohStart ==
  [pc |-> "idle", limit |-> 0, queryFilters |-> "none", dbCalls |-> 0,
   db |-> NoDbOutcome, response |-> NoResponse]

InitSlots(slots) ==
  /\ processEnv \in EnvValues
  /\ pc = [c \in slots |-> "idle"]
  /\ body = [c \in slots |-> NoBody]
  /\ result = [c \in slots |-> NoResult]
  /\ sfn = SfnStart(NoSchema)
  /\ goh = GohStart

\* A submission out of pool arrives.
Receive(c, pool) ==
  /\ pc[c] = "idle"
  /\ \E b \in pool : body' = [body EXCEPT ![c] = b]
  /\ pc' = [pc EXCEPT ![c] = "received"]
  /\ UNCHANGED <<processEnv, result, sfn, goh>>

\* Decode reading the configured address only while no other call's outcome
\* is held: state carried from one call to the next.
Decode_AddressReadOnce(c) ==
  /\ pc[c] = "received"
  /\ result' = [result EXCEPT ![c] =
                  fromPostRequest(body[c],
                    IF \E d \in DOMAIN pc : pc[d] = "done"
                    THEN [defined |-> FALSE, value |-> <<>>]
                    ELSE processEnv)]
  /\ pc' = [pc EXCEPT ![c] = "done"]
  /\ UNCHANGED <<processEnv, body, sfn, goh>>

\* Decode writing its outcome to a buffer shared with the calls whose
\* outcome is still held.
Decode_SharedBuffer(c) ==
  /\ pc[c] = "received"
  /\ result' = [d \in DOMAIN result |->
                  IF d = c \/ pc[d] = "done"
                  THEN fromPostRequest(body[c], processEnv)
                  ELSE result[d]]
  /\ pc' = [pc EXCEPT ![c] = "done"]
  /\ UNCHANGED <<processEnv, body, sfn, goh>>

\* The call fromPostRequest(body) runs to its return or throw.
Decode(c) ==
  /\ pc[c] = "received"
  /\ result' = [result EXCEPT ![c] = fromPostRequest(body[c], processEnv)]
  /\ pc' = [pc EXCEPT ![c] = "done"]
  /\ UNCHANGED <<processEnv, body, sfn, goh>>

\* The caller has the outcome; nothing of the call is kept.
Release(c) ==
  /\ pc[c] = "done"
  /\ pc' = [pc EXCEPT ![c] = "idle"]
  /\ body' = [body EXCEPT ![c] = NoBody]
  /\ result' = [result EXCEPT ![c] = NoResult]
  /\ UNCHANGED <<processEnv, sfn, goh>>

Init == InitSlots({1})

Next ==
  \/ Receive(1, Bodies)
  \/ Decode(1)
  \/ Release(1)

Spec == Init /\ [][Next]_vars

InitTwoCalls == InitSlots({1, 2})

NextTwoCalls ==
  \E c \in {1, 2} :
    \/ Receive(c, PairBodies)
    \/ Decode(c)
    \/ Release(c)

SpecTwoCalls == InitTwoCalls /\ [][NextTwoCalls]_vars

----------------------------------------------------------------------------
(* Vocabulary of the properties.                                           *)

Done(c) == pc[c] = "done"

\* The generic decoder's outcome on the submission of call c.
GenericOf(c) ==
  GenericDecode(body[c].encodedOrder, body[c].signature, body[c].chainId,
                body[c].quoteId)

\* The base-schema re-decode's outcome on the submission of call c.
BaseOf(c) == SDKDutchOrder_parse(body[c].encodedOrder, body[c].chainId)

FallbackRan(c) ==
  \E i \in DOMAIN result[c].calls : result[c].calls[i] = "SDKDutchOrder.parse"

GenericRan(c) ==
  \E i \in DOMAIN result[c].calls :
    result[c].calls[i] = "uniswapXParser.parseOrder"

EnvMissing == ~processEnv.defined \/ processEnv.value = <<>>

Absent(c) == body[c].orderType = Undefined

FallbackOrigins == {"SDKDutchOrder.parse", "fallback"}

----------------------------------------------------------------------------
\* C1 (as stated): for a submission with orderType absent, when the generic
\* decoder and the fallback both fail, the error raised to the caller is
\* the generic decoder's error.
C1_GenericErrorReported ==
  \A c \in DOMAIN pc :
    (Done(c) /\ Absent(c) /\ ~result[c].ok) => result[c].val = GenericOf(c).val

\* C1 (amended): in that case the error raised is the fallback's own error
\* (the re-decode failure, the missing address or the reactor mismatch);
\* the generic decoder's error is only written to the log, as the first
\* entry, a warning.
C1_FallbackErrorReported ==
  \A c \in DOMAIN pc :
    (Done(c) /\ Absent(c) /\ ~result[c].ok) =>
      /\ result[c].val.origin \in FallbackOrigins
      /\ result[c].val # GenericOf(c).val
      /\ result[c].log[1].level = "warn"
      /\ result[c].log[1].err = GenericOf(c).val
      /\ ~BaseOf(c).ok => result[c].val = BaseOf(c).val

C1_Witness ==
  \E c \in DOMAIN pc :
    /\ Done(c) /\ Absent(c) /\ ~result[c].ok
    /\ GenericOf(c).val.name = "MissingConfiguration"
    /\ result[c].val.message = "Invalid reactor address"

\* C2 (as stated): for a submission declared Dutch or Limit the fallback is
\* never attempted.
C2_FallbackOnlyWhenAbsent ==
  \A c \in DOMAIN pc :
    (Done(c) /\ body[c].orderType \in {"Dutch", "Limit"}) => ~FallbackRan(c)

\* C2 (amended): the fallback runs only for a submission whose orderType is
\* absent, Dutch or Limit, and only after the generic decoder failed in the
\* same call; a submission declared Limit never succeeds once the fallback
\* has run.
C2_FallbackOnlyForGenericTypes ==
  \A c \in DOMAIN pc :
    (Done(c) /\ FallbackRan(c)) =>
      /\ body[c].orderType \in {Undefined, "Dutch", "Limit"}
      /\ result[c].calls = <<"uniswapXParser.parseOrder", "SDKDutchOrder.parse">>
      /\ ~GenericOf(c).ok
      /\ body[c].orderType = "Limit" => ~result[c].ok

\* A submission declared Dutch that succeeds through the fallback.
C2_Witness ==
  \E c \in DOMAIN pc :
    /\ Done(c) /\ body[c].orderType = "Dutch" /\ FallbackRan(c)
    /\ result[c].ok

\* C3: for a submission declared Dutch_V2 (Relay) only the DutchV2 (Relay)
\* decoder is invoked, its failure is the outcome of the call, and a
\* V1-shaped payload declared Dutch_V2 fails.
C3_DedicatedDecoderOnly ==
  \A c \in DOMAIN pc :
    LET v2 == CosignedV2DutchOrder_parse(body[c].encodedOrder, body[c].chainId)
        relay == relayParser_parseOrder(body[c].encodedOrder, body[c].chainId)
    IN /\ (Done(c) /\ body[c].orderType = "Dutch_V2") =>
            /\ result[c].calls = <<"CosignedV2DutchOrder.parse">>
            /\ ~v2.ok => (~result[c].ok /\ result[c].val = v2.val)
            /\ body[c].encodedOrder.layout = "Dutch" => ~result[c].ok
       /\ (Done(c) /\ body[c].orderType = "Relay") =>
            /\ result[c].calls = <<"relayParser.parseOrder">>
            /\ ~relay.ok => (~result[c].ok /\ result[c].val = relay.val)

\* A payload the generic decoder accepts, declared Dutch_V2, has failed.
C3_Witness ==
  \E c \in DOMAIN pc :
    /\ Done(c) /\ body[c].orderType = "Dutch_V2"
    /\ GenericOf(c).ok
    /\ ~result[c].ok

\* C4: an order returned for a declared orderType T is tagged T, and when
\* the generic decoder returns an order tagged otherwise than the declared
\* Dutch or Limit the call throws UnexpectedOrderTypeError carrying the
\* tag the decoder inferred.
C4_DeclaredTypeIsReturnedType ==
  \A c \in DOMAIN pc :
    /\ (Done(c) /\ ~Absent(c) /\ result[c].ok) =>
         result[c].val.orderType = body[c].orderType
    /\ (Done(c) /\ body[c].orderType \in {"Dutch", "Limit"} /\ GenericOf(c).ok
          /\ GenericOf(c).val.orderType # body[c].orderType) =>
         /\ ~result[c].ok
         /\ result[c].val.name = "UnexpectedOrderTypeError"
         /\ result[c].val.message = GenericOf(c).val.orderType

C4_Witness ==
  \E c \in DOMAIN pc :
    /\ Done(c) /\ body[c].orderType = "Limit"
    /\ GenericOf(c).ok /\ GenericOf(c).val.orderType = "Dutch"
    /\ ~result[c].ok /\ result[c].val.message = "Dutch"

\* C5: for a submission declared Relay that decodes under the relay parser
\* to an order whose derived type is not Relay, the call throws
\* UnexpectedOrderTypeError carrying the derived type.
C5_RelayTypeRechecked ==
  \A c \in DOMAIN pc :
    LET relay == relayParser_parseOrder(body[c].encodedOrder, body[c].chainId)
    IN (Done(c) /\ body[c].orderType = "Relay" /\ relay.ok
          /\ relayParser_getOrderType(relay.val) # "Relay") =>
         /\ ~result[c].ok
         /\ result[c].val.name = "UnexpectedOrderTypeError"
         /\ result[c].val.message = relayParser_getOrderType(relay.val)

C5_Witness ==
  \E c \in DOMAIN pc :
    /\ Done(c) /\ body[c].orderType = "Relay"
    /\ relayParser_parseOrder(body[c].encodedOrder, body[c].chainId).ok
    /\ ~result[c].ok
    /\ result[c].val.name = "UnexpectedOrderTypeError"
    /\ result[c].val.message = "Dutch_V2"

\* C6: a submission with orderType absent resolves only to an order tagged
\* Dutch (DutchV1) or Limit.
C6_UntypedResolvesToV1OrLimit ==
  \A c \in DOMAIN pc :
    (Done(c) /\ Absent(c) /\ result[c].ok) =>
      result[c].val.orderType \in {"Dutch", "Limit"}

\* An untyped submission has resolved to an order through the fallback.
C6_Witness ==
  \E c \in DOMAIN pc :
    Done(c) /\ Absent(c) /\ FallbackRan(c) /\ result[c].ok

\* C7: for a submission with orderType absent that fails the generic
\* decoder and re-decodes under the base schema, when the configured
\* address equals the payload's reactor compared case-insensitively, the
\* call returns a DutchV1 order carrying that reactor address.
C7_FallbackAcceptsAllowedReactor ==
  \A c \in DOMAIN pc :
    (Done(c) /\ Absent(c) /\ ~GenericOf(c).ok /\ BaseOf(c).ok /\ ~EnvMissing
       /\ ToLowerCase(processEnv.value)
            = ToLowerCase(body[c].encodedOrder.reactor)) =>
      /\ result[c].ok
      /\ result[c].val.orderType = "Dutch"
      /\ result[c].val.inner.reactor = body[c].encodedOrder.reactor

\* The configured address and the payload's reactor differ in case only.
C7_Witness ==
  \E c \in DOMAIN pc :
    /\ Done(c) /\ Absent(c) /\ ~GenericOf(c).ok /\ BaseOf(c).ok
    /\ processEnv.value = <<"D", "4">>
    /\ body[c].encodedOrder.reactor = <<"d", "4">>
    /\ result[c].ok

\* C8: in the same scenario, with no configured address the call fails
\* with Error('CUSTOM_REACTOR_ADDRESS is not set'), with a configured
\* address that does not match with Error('Invalid reactor address'); the
\* two differ from each other and from every decoder's failure.
C8_FallbackFailureKinds ==
  \A c \in DOMAIN pc :
    LET missing == Err("Error", "CUSTOM_REACTOR_ADDRESS is not set", "fallback")
        mismatch == Err("Error", "Invalid reactor address", "fallback")
        decodeErrors ==
          {d.val : d \in {x \in {GenericOf(c), BaseOf(c),
                     CosignedV2DutchOrder_parse(body[c].encodedOrder, body[c].chainId),
                     relayParser_parseOrder(body[c].encodedOrder, body[c].chainId)} :
                          ~x.ok}}
    IN (Done(c) /\ Absent(c) /\ ~GenericOf(c).ok /\ BaseOf(c).ok) =>
         /\ EnvMissing => (~result[c].ok /\ result[c].val = missing)
         /\ (~EnvMissing /\ ToLowerCase(processEnv.value)
                              # ToLowerCase(body[c].encodedOrder.reactor)) =>
              (~result[c].ok /\ result[c].val = mismatch)
         /\ ~result[c].ok =>
              /\ result[c].val \in {missing, mismatch}
              /\ result[c].val \notin decodeErrors
              /\ \A e \in decodeErrors : e.message # result[c].val.message

\* The environment variable is set to the empty string: not configured.
C8_Witness ==
  \E c \in DOMAIN pc :
    /\ Done(c) /\ Absent(c) /\ ~GenericOf(c).ok /\ BaseOf(c).ok
    /\ processEnv.defined /\ processEnv.value = <<>>
    /\ ~result[c].ok
    /\ result[c].val.message = "CUSTOM_REACTOR_ADDRESS is not set"

\* The tag that the shape of a decoded Dutch-class order calls for.
ShapeTag(order) ==
  IF order.cls = "Dutch"
  THEN IF order.startAmount = order.endAmount THEN "Limit" ELSE "Dutch"
  ELSE order.cls

\* C9: every order returned is tagged consistently with the decoded shape
\* it holds: a Limit shape (start equals end) is tagged Limit, a decaying
\* Dutch V1 shape is tagged Dutch, on every path, the fallback included.
C9_TagMatchesShape ==
  \A c \in DOMAIN pc :
    (Done(c) /\ result[c].ok) =>
      result[c].val.orderType = ShapeTag(result[c].val.inner)

\* Two outcomes are alike: the same order, or the same kind of failure.
SameOutcome(r1, r2) ==
  /\ r1.ok = r2.ok
  /\ r1.ok => r1.val = r2.val
  /\ ~r1.ok => (r1.val.name = r2.val.name /\ r1.val.message = r2.val.message)

C11_CarriesAllCorrelationIds ==
  \A c \in DOMAIN pc :
    (Done(c) /\ result[c].ok) =>
      /\ result[c].val.signature = body[c].signature
      /\ result[c].val.chainId = body[c].chainId
      /\ result[c].val.quoteId = body[c].quoteId
      /\ result[c].val.requestId = body[c].requestId

\* C11 (amended): every order returned carries the submission's signature
\* and chainId; a DutchV1, Limit or DutchV2 order carries its quoteId; only
\* a DutchV2 order carries its requestId; a Relay order carries neither id
\* and a DutchV1 or Limit order no requestId.
C11_CarriesIdsPerVariant ==
  \A c \in DOMAIN pc :
    (Done(c) /\ result[c].ok) =>
      /\ result[c].val.signature = body[c].signature
      /\ result[c].val.chainId = body[c].chainId
      /\ result[c].val.inner.chainId = body[c].chainId
      /\ result[c].val.quoteId =
           IF result[c].val.orderType = "Relay" THEN Undefined
           ELSE body[c].quoteId
      /\ result[c].val.requestId =
           IF result[c].val.orderType = "Dutch_V2" THEN body[c].requestId
           ELSE Undefined

\* A DutchV2 order has been returned for a submission with both ids.
C11_Witness ==
  \E c \in DOMAIN pc :
    /\ Done(c) /\ result[c].ok
    /\ result[c].val.orderType = "Dutch_V2"
    /\ body[c].quoteId = "q1" /\ body[c].requestId = "r1"
    /\ result[c].val.requestId = "r1"


\* The outcome of the decoder that fromPostRequest tries first for the
\* declared type of the submission of call c.
PrimaryOf(c) ==
  CASE body[c].orderType = "Dutch_V2" ->
         CosignedV2DutchOrder_parse(body[c].encodedOrder, body[c].chainId)
    [] body[c].orderType = "Relay" ->
         relayParser_parseOrder(body[c].encodedOrder, body[c].chainId)
    [] OTHER -> GenericOf(c)

\* C12: the configured address is validated lazily: the error
\* 'CUSTOM_REACTOR_ADDRESS is not set' is raised only in a call whose
\* generic decoder failed and whose re-decode succeeded, and when the
\* first decoder for the declared type succeeds the outcome is the same
\* under every setting of the address (unset, empty, other, matching).
C12_AllowListValidatedLazily ==
  \A c \in DOMAIN pc :
    /\ (Done(c) /\ ~result[c].ok
          /\ result[c].val.message = "CUSTOM_REACTOR_ADDRESS is not set") =>
         (GenericRan(c) /\ ~GenericOf(c).ok /\ FallbackRan(c) /\ BaseOf(c).ok)
    /\ (Done(c) /\ PrimaryOf(c).ok) =>
         /\ \A e \in EnvValues : result[c] = fromPostRequest(body[c], e)
         /\ \A i \in DOMAIN result[c].log :
              result[c].log[i].message # "CUSTOM_REACTOR_ADDRESS is not set"

\* The generic decoder succeeded in a process without a configured address.
C12_Witness ==
  \E c \in DOMAIN pc :
    /\ Done(c) /\ EnvMissing
    /\ body[c].orderType \in {Undefined, "Dutch", "Limit"}
    /\ GenericOf(c).ok
    /\ result[c].ok


\* C13: the fallback re-decodes first, then checks that the address is
\* set, then compares the reactor: when the re-decode fails its error is
\* what the fallback throws, with the address unset or set, and neither
\* 'CUSTOM_REACTOR_ADDRESS is not set' nor 'Invalid reactor address' is
\* thrown or logged in that call; when it succeeds, an unset address is
\* reported before any comparison.
C13_FallbackStepOrder ==
  \A c \in DOMAIN pc :
    /\ (Done(c) /\ FallbackRan(c) /\ ~BaseOf(c).ok) =>
         /\ ~result[c].ok
         /\ result[c].val = BaseOf(c).val
         /\ \A i \in DOMAIN result[c].log :
              /\ result[c].log[i].message # "CUSTOM_REACTOR_ADDRESS is not set"
              /\ result[c].log[i].message # "Invalid reactor address"
              /\ result[c].log[i].err.origin # "fallback"
    /\ (Done(c) /\ FallbackRan(c) /\ BaseOf(c).ok /\ EnvMissing) =>
         \E i \in DOMAIN result[c].log :
           /\ result[c].log[i].err
                = Err("Error", "CUSTOM_REACTOR_ADDRESS is not set", "fallback")
           /\ \A j \in DOMAIN result[c].log :
                result[c].log[j].message # "Invalid reactor address"

\* The re-decode failed in a process without a configured address.
C13_Witness ==
  \E c \in DOMAIN pc :
    /\ Done(c) /\ Absent(c) /\ FallbackRan(c) /\ ~BaseOf(c).ok /\ EnvMissing
    /\ ~result[c].ok
    /\ result[c].val.origin = "SDKDutchOrder.parse"


\* The sdk's parse of the submission of call c by the generic parser.
ParsedOf(c) == uniswapXParser_parseOrder(body[c].encodedOrder, body[c].chainId)

\* C14: when the generic parser decodes the payload but the inferred
\* variant is neither Dutch nor Limit, the generic decoder throws
\* UnexpectedOrderTypeError carrying the inferred variant, and for a
\* submission declared Dutch or Limit that error is the one the caller of
\* fromPostRequest receives.
C14_UnexpectedTypeReachesCaller ==
  \A c \in DOMAIN pc :
    (Done(c) /\ body[c].orderType \in {"Dutch", "Limit"} /\ ParsedOf(c).ok
       /\ uniswapXParser_getOrderType(ParsedOf(c).val) \notin {"Dutch", "Limit"})
    => /\ ~GenericOf(c).ok
       /\ GenericOf(c).val.name = "UnexpectedOrderTypeError"
       /\ GenericOf(c).val.message = uniswapXParser_getOrderType(ParsedOf(c).val)
       /\ ~result[c].ok
       /\ result[c].val = GenericOf(c).val


\* The places of fromPostRequest's call tree that create an error, besides
\* the sdk decoders.
CheckOrigins ==
  {"tryParseDutchOrder", "fallback", "tryParseDutchV1Order",
   "tryParseLimitOrder", "tryParseRelayOrder"}

\* The sdk decoders invoked in call c.
CallsOf(c) == {result[c].calls[i] : i \in DOMAIN result[c].calls}

\* C15: a call that ends in failure has written at least one error-level
\* log entry carrying the submission's encodedOrder, chainId and signature,
\* the last of them holding the very error that reaches the caller, and
\* that error was created during the call by a decoder it invoked or by
\* one of its checks.
C15_FailureLoggedAndRethrown ==
  \A c \in DOMAIN pc :
    (Done(c) /\ ~result[c].ok) =>
      LET log == result[c].log
          last == log[Len(log)]
      IN /\ Len(log) >= 1
         /\ last.level = "error"
         /\ last.context
         /\ last.encodedOrder = body[c].encodedOrder
         /\ last.chainId = body[c].chainId
         /\ last.signature = body[c].signature
         /\ last.err = result[c].val
         /\ result[c].val.origin \in CallsOf(c) \cup CheckOrigins
         /\ result[c].val.origin \in CallsOf(c) =>
              result[c].val \in
                {d.val : d \in {x \in {ParsedOf(c), BaseOf(c),
                    CosignedV2DutchOrder_parse(body[c].encodedOrder, body[c].chainId),
                    relayParser_parseOrder(body[c].encodedOrder, body[c].chainId)} :
                                  ~x.ok}}

\* A submission declared Dutch failed in the fallback: the error was logged
\* by the fallback's catch and again by the wrapper's.
C15_Witness ==
  \E c \in DOMAIN pc :
    /\ Done(c) /\ body[c].orderType = "Dutch" /\ ~result[c].ok
    /\ FallbackRan(c)
    /\ Len(result[c].log) >= 3
    /\ result[c].log[Len(result[c].log)].err = result[c].val


\* The decoder sequences a call of fromPostRequest may run.
CallSequences ==
  { <<"uniswapXParser.parseOrder">>,
    <<"uniswapXParser.parseOrder", "SDKDutchOrder.parse">>,
    <<"CosignedV2DutchOrder.parse">>,
    <<"relayParser.parseOrder">> }

\* C16: nothing is retried: in one call each decoder is invoked at most
\* once, the re-decode only after the generic decoder failed in that call
\* and exactly when it failed; the call ends in one outcome, which is that
\* of the submission alone, and once the caller has it the slot holds
\* nothing of the call.
C16_NothingRetried ==
  \A c \in DOMAIN pc :
    /\ Done(c) =>
         /\ \A i, j \in DOMAIN result[c].calls :
              result[c].calls[i] = result[c].calls[j] => i = j
         /\ result[c].calls \in CallSequences
         /\ FallbackRan(c) <=> (GenericRan(c) /\ ~GenericOf(c).ok)
         /\ result[c] = fromPostRequest(body[c], processEnv)
    /\ ~Done(c) => result[c] = NoResult
    /\ pc[c] = "idle" => body[c] = NoBody

\* A failed DutchV2 decode: one invocation, one error.
C16_Witness ==
  \E c \in DOMAIN pc :
    /\ Done(c) /\ body[c].orderType = "Dutch_V2" /\ ~result[c].ok
    /\ result[c].calls = <<"CosignedV2DutchOrder.parse">>


\* C17: calls in flight together decode independently: in every step of
\* every interleaving the configured address is left as it was, a step of
\* one call leaves the submission and outcome of the other untouched, and
\* the outcome each call holds is the one its submission has when decoded
\* alone.
C17_ConcurrentCallsIndependent ==
  [][/\ processEnv' = processEnv
     /\ \A c \in DOMAIN pc :
          /\ pc'[c] = "done" =>
               result'[c] = fromPostRequest(body'[c], processEnv')
          /\ pc'[c] = pc[c] =>
               (body'[c] = body[c] /\ result'[c] = result[c])]_vars

\* Two calls held together: one returned an order through the fallback,
\* the other, for another submission, failed.
C17_Witness ==
  /\ DOMAIN pc = {1, 2}
  /\ Done(1) /\ Done(2)
  /\ body[1] # body[2]
  /\ FallbackRan(1) /\ result[1].ok
  /\ ~result[2].ok


\* C18: a submission declared Limit never succeeds with an order built by
\* the fallback: when the generic decoder fails, the call ends in the
\* fallback's own error or, when the fallback returned its DutchV1 order,
\* in UnexpectedOrderTypeError('Dutch') thrown by tryParseLimitOrder,
\* under every setting of the configured address.
C18_LimitNeverThroughFallback ==
  \A c \in DOMAIN pc :
    (Done(c) /\ body[c].orderType = "Limit" /\ ~GenericOf(c).ok) =>
      LET matches == /\ BaseOf(c).ok /\ ~EnvMissing
                     /\ ToLowerCase(processEnv.value)
                          = ToLowerCase(body[c].encodedOrder.reactor)
      IN /\ FallbackRan(c)
         /\ ~result[c].ok
         /\ matches =>
              result[c].val = UnexpectedOrderTypeError("Dutch", "tryParseLimitOrder")
         /\ ~matches => result[c].val.origin \in FallbackOrigins

\* A Limit-shaped order on the configured custom reactor, declared Limit.
C18_Witness ==
  \E c \in DOMAIN pc :
    /\ Done(c) /\ body[c].orderType = "Limit" /\ ~GenericOf(c).ok
    /\ body[c].encodedOrder.startAmount = body[c].encodedOrder.endAmount
    /\ ~result[c].ok
    /\ result[c].val = UnexpectedOrderTypeError("Dutch", "tryParseLimitOrder")

----------------------------------------------------------------------------
(* SfnLambdaHandler.buildHandler: one invocation of the built handler,     *)
(* one action per await or call.  trace records the steps that started.    *)

SfnStep(name) == Append(sfn.trace, name)

SfnReject(e, trace, log) ==
  sfn' = [sfn EXCEPT !.pc = "rejected", !.outcome = "rejected", !.error = e,
                     !.trace = trace, !.log = log]

\* The runtime calls the handler with an event.
SfnInvoke ==
  /\ sfn.pc = "idle"
  /\ \E e \in SfnEvents :
       sfn' = [SfnStart(sfn.schema) EXCEPT !.pc = "validateInput", !.event = e]
  /\ UNCHANGED <<parserVars, goh>>

\* await this.validateInput(sfnInput, log)
SfnValidateInput ==
  /\ sfn.pc = "validateInput"
  /\ LET r == validateInput(sfn.schema, sfn.event)
     IN IF r.ok
        THEN sfn' = [sfn EXCEPT !.pc = "injector",
                                !.trace = SfnStep("validateInput"),
                                !.log = sfn.log \o r.log]
        ELSE SfnReject(r.val, SfnStep("validateInput"), sfn.log \o r.log)
  /\ UNCHANGED <<parserVars, goh>>

\* await this.injectorPromise; injector.getContainerInjected()
SfnAwaitInjector ==
  /\ sfn.pc = "injector"
  /\ \E o \in InjectorOutcomes :
       CASE o = "rejected" ->
              SfnReject(Err("Error", "injector build failed", "injectorPromise"),
                        SfnStep("injectorPromise"), sfn.log)
         [] o = "containerThrows" ->
              SfnReject(Err("Error", "container undefined", "getContainerInjected"),
                        SfnStep("injectorPromise") \o <<"getContainerInjected">>,
                        sfn.log)
         [] o = "resolved" ->
              sfn' = [sfn EXCEPT !.pc = "getRequestInjected",
                                 !.trace = SfnStep("injectorPromise")
                                             \o <<"getContainerInjected">>]
  /\ UNCHANGED <<parserVars, goh>>

\* try { await injector.getRequestInjected(...) } catch (err) { log.error;
\* throw new InjectionError(...err) }
SfnGetRequestInjected ==
  /\ sfn.pc = "getRequestInjected"
  /\ \/ sfn' = [sfn EXCEPT !.pc = "handleRequest", !.injected = "ok",
                           !.trace = SfnStep("getRequestInjected")]
     \/ \E err \in InjectedErrors :
          sfn' = [sfn EXCEPT
                    !.pc = "rejected", !.outcome = "rejected",
                    !.injected = "failed", !.cause = err,
                    !.error = InjectionError(err),
                    !.trace = SfnStep("getRequestInjected"),
                    !.log = Append(sfn.log,
                              [LogPlain("error",
                                 "Unexpected error building request injected.")
                               EXCEPT !.err = err])]
  /\ UNCHANGED <<parserVars, goh>>

\* return await this.handleRequest({containerInjected, requestInjected})
SfnHandleRequest ==
  /\ sfn.pc = "handleRequest"
  /\ \/ \E out \in SfnOutputs :
          sfn' = [sfn EXCEPT !.pc = "resolved", !.outcome = "resolved",
                             !.output = out,
                             !.trace = SfnStep("handleRequest")]
     \/ \E e \in HandleErrors : SfnReject(e, SfnStep("handleRequest"), sfn.log)
  /\ UNCHANGED <<parserVars, goh>>

\* The invocation's promise has settled; the handler can be invoked again.
SfnSettle ==
  /\ sfn.pc \in {"resolved", "rejected"}
  /\ sfn' = SfnStart(sfn.schema)
  /\ UNCHANGED <<parserVars, goh>>

InitSfn ==
  /\ processEnv = [defined |-> FALSE, value |-> <<>>]
  /\ pc = [c \in {1} |-> "idle"]
  /\ body = [c \in {1} |-> NoBody]
  /\ result = [c \in {1} |-> NoResult]
  /\ sfn \in {SfnStart(s) : s \in SfnSchemas}
  /\ goh = GohStart

NextSfn ==
  \/ SfnInvoke
  \/ SfnValidateInput
  \/ SfnAwaitInjector
  \/ SfnGetRequestInjected
  \/ SfnHandleRequest
  \/ SfnSettle

SpecSfn == InitSfn /\ [][NextSfn]_vars

SfnRan(name) == \E i \in DOMAIN sfn.trace : sfn.trace[i] = name

SfnStepOrder ==
  <<"validateInput", "injectorPromise", "getContainerInjected",
    "getRequestInjected", "handleRequest">>

\* The input fails the handler's schema.
SfnInvalid ==
  /\ ~sfn.schema.null
  /\ SchemaValidationError(sfn.schema, sfn.event) # "none"

\* C19: the steps that ran are a prefix of validateInput, injector,
\* getRequestInjected, handleRequest; handleRequest runs only after the
\* input passed validation and getRequestInjected succeeded; an input that
\* fails the schema rejects with SfnInputValidationError before
\* getRequestInjected is called; an error of getRequestInjected rejects
\* with InjectionError and handleRequest is not called.
C19_StepsInOrder ==
  /\ Len(sfn.trace) <= Len(SfnStepOrder)
  /\ sfn.trace = SubSeq(SfnStepOrder, 1, Len(sfn.trace))
  /\ SfnRan("handleRequest") =>
       /\ ~SfnInvalid
       /\ sfn.injected = "ok"
  /\ (SfnRan("validateInput") /\ SfnInvalid) =>
       /\ sfn.pc = "rejected"
       /\ sfn.error.name = "SfnInputValidationError"
       /\ sfn.error.message = SchemaValidationError(sfn.schema, sfn.event)
       /\ ~SfnRan("getRequestInjected")
       /\ ~SfnRan("handleRequest")
  /\ sfn.injected = "failed" =>
       /\ sfn.pc = "rejected"
       /\ sfn.error.name = "InjectionError"
       /\ sfn.error = InjectionError(sfn.cause)
       /\ sfn.cause \in InjectedErrors
       /\ ~SfnRan("handleRequest")

\* getRequestInjected threw after a valid input, and the invocation
\* rejected with InjectionError.
C19_Witness ==
  /\ sfn.pc = "rejected"
  /\ ~sfn.schema.null
  /\ sfn.schema.required # {}
  /\ ~SfnInvalid
  /\ sfn.injected = "failed"
  /\ sfn.error.name = "InjectionError"

----------------------------------------------------------------------------
(* GetOrdersHandler.handleRequest: one call.                               *)

\* handleRequest(params) reads limit and queryFilters and calls
\* dbInterface.getOrders(limit, queryFilters).
GohCallGetOrders ==
  /\ goh.pc = "idle"
  /\ \E l \in GetOrdersLimits, f \in GetOrdersFilters :
       goh' = [GohStart EXCEPT !.pc = "awaitGetOrders", !.limit = l,
                               !.queryFilters = f, !.dbCalls = 1]
  /\ UNCHANGED <<parserVars, sfn>>

\* getOrders settles and handleRequest returns its response.
GohRespond ==
  /\ goh.pc = "awaitGetOrders"
  /\ \E db \in DbOutcomes :
       goh' = [goh EXCEPT !.pc = "settled", !.db = db,
                          !.response = GetOrdersRespond(db)]
  /\ UNCHANGED <<parserVars, sfn>>

\* The caller has the response; the handler can be called again.
GohDone ==
  /\ goh.pc = "settled"
  /\ goh' = GohStart
  /\ UNCHANGED <<parserVars, sfn>>

InitGetOrders ==
  /\ processEnv = [defined |-> FALSE, value |-> <<>>]
  /\ pc = [c \in {1} |-> "idle"]
  /\ body = [c \in {1} |-> NoBody]
  /\ result = [c \in {1} |-> NoResult]
  /\ sfn = SfnStart(NoSchema)
  /\ goh = GohStart

NextGetOrders ==
  \/ GohCallGetOrders
  \/ GohRespond
  \/ GohDone

SpecGetOrders == InitGetOrders /\ [][NextGetOrders]_vars

\* C20: handleRequest never raises; when getOrders resolves the response
\* is 200 with exactly the orders the database returned; when getOrders
\* rejects the response is 500, with errorCode the error's message exactly
\* when the rejection is an Error; getOrders is called once, never again.
C20_NeverRaisesOneCall ==
  /\ goh.dbCalls <= 1
  /\ goh.pc = "settled" =>
       /\ goh.dbCalls = 1
       /\ ~goh.response.raised
       /\ goh.db.resolved =>
            /\ goh.response.statusCode = 200
            /\ goh.response.hasBody
            /\ goh.response.orders = goh.db.orders
            /\ ~goh.response.hasErrorCode
       /\ ~goh.db.resolved =>
            /\ goh.response.statusCode = 500
            /\ ~goh.response.hasBody
            /\ goh.response.hasErrorCode = goh.db.isError
            /\ goh.db.isError =>
                 goh.response.errorCode = goh.db.thrown.message

\* getOrders rejected with a value that is not an Error and the caller got
\* a 500 response without errorCode.
C20_Witness ==
  /\ goh.pc = "settled"
  /\ ~goh.db.resolved
  /\ ~goh.db.isError
  /\ goh.response.statusCode = 500
  /\ ~goh.response.hasErrorCode

====
